---------------------------- MODULE Spec2Model ----------------------------
(***************************************************************************)
(* A model of the dog-breed mirror: the retrying fetch client, the         *)
(* validator, the SQLite store and the ingestion run of backend/app.py and *)
(* backend/dog_cache.py, and the job scheduler of                          *)
(* backend/background_jobs.py.                                             *)
(*                                                                         *)
(* Strings are sequences of one-character strings so that strip(), lower() *)
(* and substring tests are computed.  The table's created_at / updated_at  *)
(* columns and the run's total_fetched counter are written but never read  *)
(* by the program and are left out of the state.                           *)
(***************************************************************************)
EXTENDS Integers, Sequences, FiniteSets, TLC

(***************************************************************************)
(* Program constants (backend/app.py, configuration block)                 *)
(***************************************************************************)
MAX_RETRIES == 3
RETRY_DELAY == 1
MAX_EXTERNAL_PAGES == 50
ITEMS_PER_PAGE == 15
FAILURE_THRESHOLD == 10
MAX_BREED_LEN == 60
JOIN_TIMEOUT == 5
POLL_SLEEP == 1

(***************************************************************************)
(* Bounds of the model                                                     *)
(***************************************************************************)
MaxRuns == 2          \* ingestion runs per behaviour
RerunPages == 2       \* pages of the fixed upstream in the re-run scenario
MaxUpserts == 3       \* direct add_dogs_batch calls per behaviour
MaxThreads == 2       \* loop threads created over a behaviour
MaxTime == 10         \* seconds the scheduler clock advances past its start
EpochStart == 9       \* a wall-clock reading at process start other than 0
MaxStoreSize == 31    \* records in the store when the listing is read
MaxRestartTime == 6   \* seconds the clock advances when start() may follow stop()
MaxJobTime == 3       \* seconds the clock advances while a scheduled refresh is followed
JobPages == 3         \* pages of the upstream a scheduled refresh reads
MaxPage == 4          \* page parameters range over -MaxPage..MaxPage

(***************************************************************************)
(* Strings                                                                 *)
(***************************************************************************)
Whitespace == {" ", "\t", "\n"}

UpperLetters ==
    <<"A","B","C","D","E","F","G","H","I","J","K","L","M",
      "N","O","P","Q","R","S","T","U","V","W","X","Y","Z">>
LowerLetters ==
    <<"a","b","c","d","e","f","g","h","i","j","k","l","m",
      "n","o","p","q","r","s","t","u","v","w","x","y","z">>

LowerChar(c) ==
    IF \E i \in DOMAIN UpperLetters : UpperLetters[i] = c
    THEN LowerLetters[CHOOSE i \in DOMAIN UpperLetters : UpperLetters[i] = c]
    ELSE c

\* str.lower()
Lower(s) == [i \in 1..Len(s) |-> LowerChar(s[i])]

RECURSIVE LStrip(_)
LStrip(s) ==
    IF s # <<>> /\ Head(s) \in Whitespace THEN LStrip(Tail(s)) ELSE s

RECURSIVE RStrip(_)
RStrip(s) ==
    IF s # <<>> /\ s[Len(s)] \in Whitespace
    THEN RStrip(SubSeq(s, 1, Len(s) - 1)) ELSE s

\* str.strip()
Strip(s) == RStrip(LStrip(s))

\* sub in s
Contains(s, sub) ==
    \E i \in 1..(Len(s) - Len(sub) + 1) : SubSeq(s, i, i + Len(sub) - 1) = sub

(***************************************************************************)
(* Python values that reach the validator: None, a string, a truthy         *)
(* non-string value (a number) or a falsy one (the number 0).              *)
(***************************************************************************)
NoneV == [t |-> "none", s |-> <<>>]
NumV == [t |-> "num", s |-> <<>>]
ZeroV == [t |-> "zero", s |-> <<>>]
StrV(s) == [t |-> "str", s |-> s]

\* Python truthiness of a value
Truthy(v) == v.t = "num" \/ (v.t = "str" /\ v.s # <<>>)

IsStr(v) == v.t = "str"

Dict(b, i) == [type |-> "dict", breed |-> b, image |-> i]
NonDict == [type |-> "other", breed |-> NoneV, image |-> NoneV]

URL_MARKS == {<<"h","t","t","p",":","/","/">>, <<"h","t","t","p","s",":","/","/">>}
IMAGE_EXTS == {<<".","j","p","g">>, <<".","j","p","e","g">>, <<".","p","n","g">>,
               <<".","g","i","f">>, <<".","w","e","b","p">>}

Rejected == [ok |-> FALSE, breed |-> <<>>, image |-> <<>>]

\* the test without .lower(): case-sensitive
CorruptedBreedCaseSensitive(b) ==
    \/ Len(b) > MAX_BREED_LEN
    \/ \E u \in URL_MARKS : Contains(b, u)
    \/ \E e \in IMAGE_EXTS : Contains(b, e)

\* the "corrupted breed" test of validate_and_normalize_dog_data
CorruptedBreed(b) ==
    \/ Len(b) > MAX_BREED_LEN
    \/ \E lowered \in {Lower(b)} :
          \/ \E u \in URL_MARKS : Contains(lowered, u)
          \/ \E e \in IMAGE_EXTS : Contains(lowered, e)

NormalizeImage(image) ==
    IF ~Truthy(image) \/ ~IsStr(image) \/ Len(Strip(image.s)) = 0
    THEN <<>> ELSE Strip(image.s)

\* v.strip() raises AttributeError unless v is a string
StripRaises(v) == ~IsStr(v)

\* "not v or not isinstance(v, str) or len(v.strip()) == 0" evaluates
\* left to right and stops at the first true operand
FieldTestRaises(v) == Truthy(v) /\ IsStr(v) /\ StripRaises(v)

\* whether validate_and_normalize_dog_data(data) raises: a non-dict returns
\* before data.get is reached
ValidateRaises(data) ==
    IF data.type # "dict" THEN FALSE
    ELSE \/ FieldTestRaises(data.breed)
         \/ (~(~Truthy(data.breed) \/ ~IsStr(data.breed)
                 \/ Len(Strip(data.breed.s)) = 0)
              /\ ~CorruptedBreed(Strip(data.breed.s))
              /\ FieldTestRaises(data.image))

\* validate_and_normalize_dog_data(data): Rejected stands for None
validate_and_normalize_dog_data(data) ==
    IF data.type # "dict" THEN Rejected
    ELSE IF ~Truthy(data.breed) \/ ~IsStr(data.breed)
            \/ Len(Strip(data.breed.s)) = 0 THEN Rejected
    ELSE \* breed = breed.strip(): the stripped value is bound once
         CHOOSE r \in
             { IF CorruptedBreed(breed) THEN Rejected
               ELSE [ok |-> TRUE, breed |-> breed,
                     image |-> NormalizeImage(data.image)] :
               breed \in {Strip(data.breed.s)} } : TRUE

\* a loop that keeps every item as it came
RECURSIVE ValidatedDogsUnchecked(_)
ValidatedDogsUnchecked(items) ==
    IF items = <<>> THEN <<>>
    ELSE <<[breed |-> Head(items).breed.s, image |-> <<>>]>>
             \o ValidatedDogsUnchecked(Tail(items))

\* the validation loop of fetch_dogs_from_api: accepted records, in order
RECURSIVE ValidatedDogs(_)
ValidatedDogs(items) ==
    IF items = <<>> THEN <<>>
    ELSE LET v == validate_and_normalize_dog_data(Head(items))
         IN  (IF v.ok THEN <<[breed |-> v.breed, image |-> v.image]>> ELSE <<>>)
             \o ValidatedDogs(Tail(items))

(***************************************************************************)
(* The store (backend/dog_cache.py): table dogs, breed is the primary key  *)
(***************************************************************************)
\* one INSERT OR REPLACE: rows in conflict on the primary key are deleted,
\* the new row is inserted
InsertOrReplaceBroken(rows, dog) ==
    IF \E r \in rows : r.breed = dog.breed
    THEN {r \in rows : r.breed # dog.breed}
    ELSE rows \cup {[breed |-> dog.breed, image |-> dog.image]}

\* what "INSERT OR IGNORE" would do: a row in conflict keeps its old value
InsertOrIgnore(rows, dog) ==
    IF \E r \in rows : r.breed = dog.breed
    THEN rows
    ELSE rows \cup {[breed |-> dog.breed, image |-> dog.image]}

InsertOrReplace(rows, dog) ==
    {r \in rows : r.breed # dog.breed}
        \cup {[breed |-> dog.breed, image |-> dog.image]}

\* executemany over the batch, in order
RECURSIVE ExecuteMany(_, _)
ExecuteMany(rows, dogs) ==
    IF dogs = <<>> THEN rows
    ELSE ExecuteMany(InsertOrReplace(rows, Head(dogs)), Tail(dogs))

\* a batch written over an emptied table
add_dogs_batch_replacing_all(rows, dogs) ==
    IF dogs = <<>> THEN rows ELSE ExecuteMany({}, dogs)

\* DogCache.add_dogs_batch: the table after the call
add_dogs_batch(rows, dogs) ==
    IF dogs = <<>> THEN rows ELSE ExecuteMany(rows, dogs)

\* DogCache.get_all_dogs_dict: {row[0]: row[1] for row in results}; when
\* several rows carried one breed the dict would keep the last in breed order
get_all_dogs_dict(rows) ==
    [k \in {r.breed : r \in rows} |-> (CHOOSE r \in rows : r.breed = k).image]

(***************************************************************************)
(* Sample data: breeds, raw items, upstream response bodies                *)
(***************************************************************************)
sPug == <<"P","u","g">>
sPugPadded == <<" ","P","u","g"," ">>
sAkita == <<"A","k","i","t","a">>
sUrl == <<"H","T","T","P",":","/","/","x">>
sBlank == <<" ">>
img1 == <<"1">>
img2 == <<"2">>

ItemPug1 == Dict(StrV(sPugPadded), StrV(img1))
ItemPug2 == Dict(StrV(sPug), StrV(img2))
ItemAkita == Dict(StrV(sAkita), NoneV)
ItemUrl == Dict(StrV(sUrl), StrV(img1))
ItemBlank == Dict(StrV(sBlank), StrV(img1))

ArrayBody(items) == [shape |-> "array", items |-> items]
ObjectBody == [shape |-> "object", items |-> <<>>]
ScalarBody == [shape |-> "scalar", items |-> <<>>]
MalformedBody == [shape |-> "malformed", items |-> <<>>]

PageLists ==
    { <<>>, <<ItemPug1>>, <<ItemPug2, NonDict>>, <<ItemUrl, ItemAkita>>,
      <<ItemBlank>> }

Http(status, body) == [kind |-> "http", status |-> status, body |-> body]
NetworkError == [kind |-> "neterr", status |-> 0, body |-> MalformedBody]
NoResponse == [kind |-> "none", status |-> 0, body |-> MalformedBody]

\* what one requests.get(url, timeout=10) can produce
Responses ==
    {Http(200, ArrayBody(l)) : l \in PageLists}
        \cup {Http(200, ObjectBody), Http(200, ScalarBody), Http(200, MalformedBody),
              Http(500, ArrayBody(<<ItemPug1>>)), NetworkError}

\* a page of the fixed upstream answers every attempt alike
FixedResponses ==
    {Http(200, ArrayBody(l)) : l \in PageLists} \cup {Http(500, ObjectBody)}

\* batches handed to add_dogs_batch directly
Batches ==
    { <<>>,
      <<[breed |-> sPug, image |-> img1]>>,
      <<[breed |-> sPug, image |-> img2]>>,
      <<[breed |-> sPug, image |-> img1], [breed |-> sPug, image |-> img2]>>,
      <<[breed |-> sAkita, image |-> <<>>], [breed |-> sPug, image |-> img1]>> }

Repeat(c, n) == [i \in 1..n |-> c]

\* breed and image values handed to the validator directly
BreedStrings ==
    { <<>>, sBlank, sPug, sPugPadded, sUrl,
      <<"\t","P","u","g","\n">>,
      <<"x","h","T","t","P","s",":","/","/","y">>,
      <<"h","t","t","p",":","/","x">>,
      <<"a",".","J","P","G">>, <<"a",".","j","p","e","g","s">>,
      <<".","p","n","g">>, <<"a",".","G","i","f">>, <<"a",".","w","e","b","p">>,
      <<"a",".","j","p">>,
      Repeat("a", MAX_BREED_LEN), Repeat("a", MAX_BREED_LEN + 1),
      <<" ">> \o Repeat("a", MAX_BREED_LEN) \o <<" ">>,
      <<" ">> \o Repeat("a", MAX_BREED_LEN + 1) }

BreedValues == {NoneV, NumV, ZeroV} \cup {StrV(b) : b \in BreedStrings}

ImageValues ==
    {NoneV, NumV, StrV(<<>>), StrV(sBlank), StrV(img1), StrV(<<" ","1"," ">>)}

ValidatorInputs ==
    {NonDict} \cup {Dict(b, i) : b \in BreedValues, i \in ImageValues}

\* tables found on disk at process start (the cache file survives restarts)
InitialTables == { {}, {[breed |-> sPug, image |-> img2]} }

\* max_pages arguments: None, or an integer
NoneArg == [none |-> TRUE, n |-> 0]
IntArg(n) == [none |-> FALSE, n |-> n]
RunArgs ==
    { <<1, NoneArg>>, <<45, IntArg(0)>>, <<1, IntArg(2)>>, <<49, IntArg(5)>> }

Failure == [ok |-> FALSE, data |-> <<>>]
NotCalled == [called |-> FALSE, raised |-> FALSE, value |-> Rejected]
NotServed == [served |-> FALSE, status |-> 0, body |-> <<>>]
NullTime == [isNull |-> TRUE, t |-> 0]

Min(a, b) == IF a <= b THEN a ELSE b

RECURSIVE Pow2(_)
Pow2(n) == IF n = 0 THEN 1 ELSE 2 * Pow2(n - 1)

Max(a, b) == IF a >= b THEN a ELSE b

\* characters in code-point order (the order of SQLite's BINARY collation
\* and of Python's str comparison)
CharOrder ==
    <<"\t", "\n", " ", ".", "/", "0", "1", "2", "3", "4", "5", "6", "7", "8",
      "9", ":">> \o UpperLetters \o LowerLetters

Code(c) == CHOOSE i \in DOMAIN CharOrder : CharOrder[i] = c

\* a < b for strings
RECURSIVE StrLess(_, _)
StrLess(a, b) ==
    IF b = <<>> THEN FALSE
    ELSE IF a = <<>> THEN TRUE
    ELSE IF Head(a) = Head(b) THEN StrLess(Tail(a), Tail(b))
    ELSE Code(Head(a)) < Code(Head(b))

\* sorted(all_dogs_dict.items()): breeds are unique, so the order is by breed
RECURSIVE SortedBreeds(_)
SortedBreeds(S) ==
    IF S = {} THEN <<>>
    ELSE LET m == CHOOSE x \in S : \A y \in S : x = y \/ StrLess(x, y)
         IN  <<m>> \o SortedBreeds(S \ {m})

\* list[start:stop] with Python's treatment of negative and oversized bounds
PySliceBound(i, n) == IF i < 0 THEN Max(i + n, 0) ELSE Min(i, n)

PySlice(list, start, stop) ==
    SubSeq(list, PySliceBound(start, Len(list)) + 1,
           PySliceBound(stop, Len(list)))

\* GET /api/dogs?page=<page> over the table rows, the store answering
get_dogs(rows, page) ==
    LET all_dogs_dict == get_all_dogs_dict(rows)
        breeds == SortedBreeds(DOMAIN all_dogs_dict)
        all_dogs == [i \in DOMAIN breeds |->
                        [breed |-> breeds[i], image |-> all_dogs_dict[breeds[i]]]]
        start_idx == (page - 1) * ITEMS_PER_PAGE
        end_idx == start_idx + ITEMS_PER_PAGE
    IN  [served |-> TRUE, status |-> 200,
         body |-> PySlice(all_dogs, start_idx, end_idx)]

\* the except branch of get_dogs
InternalServerError == [served |-> TRUE, status |-> 500, body |-> <<>>]

\* stored breeds "b<units><tens>": generation order is not sort order
Digits == <<"0", "1", "2", "3", "4", "5", "6", "7", "8", "9">>
BreedNo(i) == <<"b", Digits[(i % 10) + 1], Digits[(i \div 10) + 1]>>
TableOf(n) ==
    {[breed |-> BreedNo(i), image |-> IF i % 2 = 0 THEN img1 ELSE <<>>] :
        i \in 1..n}

VARIABLES
    \* backend/dog_cache.py and the module state of backend/app.py
    db,                   \* rows of table dogs
    last_fetch_time,      \* app.last_fetch_time
    clock,                \* the wall clock read by datetime.now()
    upstream,             \* page -> response, for the pages the upstream fixes
    \* fetch_dogs_from_api
    rPc,                  \* "idle", "fetching", "returned", "finish"
    start_page, max_pages, end_page, external_page, consecutive_failures,
    requested,            \* pages handed to fetch_with_retry in this run
    lastOkPage,           \* last page of this run whose fetch succeeded, or 0
    completedRuns,        \* runs that reached the end of fetch_dogs_from_api's loop
    runEnd,               \* how the last run left its loop
    runOutcome,           \* "none", "returned", "raised"
    runsDone,
    runSnaps,             \* under a fixed upstream: the store at each completed run
    \* fetch_with_retry
    attempt, fRequests, fSleeps, fResult, fLastResp,
    \* direct calls of add_dogs_batch
    upserts,
    lastBatch,            \* the batch of the latest call
    repeated,             \* the latest call repeated the batch of the call before
    snapBefore, snapAfter, \* get_all_dogs_dict() before and after the latest call
    \* direct calls of validate_and_normalize_dog_data and of GET /api/dogs
    vItem, vResult,       \* the argument and the value returned, once called
    gPage, gResponse,     \* the page parameter and the response, once served
    jobCall,              \* periodic_cache_refresh_job as a job action: "none", "running"
    bootPc                \* quick_initial_fetch: "start", "fetching", "done", "crashed"

VARIABLES
    \* backend/background_jobs.py: BackgroundJobScheduler
    jobs,                 \* self.jobs: the job dicts, by registration number
    jobRec,               \* registration number -> the job dict
    running,              \* self.running
    thread,               \* self.thread: the latest Thread, 0 for None
    now,                  \* time.time()
    \* each _run_loop thread
    tPc,                  \* "none", "loop", "iter", "exec", "sleep", "dead"
    tTime,                \* current_time of the tick
    tSnap,                \* self.jobs[:] of the tick
    tIdx,                 \* position of the for loop in tSnap
    tWake,                \* when time.sleep(1) returns
    tTick,                \* ticks the thread has begun
    tRaised,              \* recurring jobs whose action raised in this tick
    tRetry,               \* recurring jobs whose action raised in the tick before
    \* the caller of the scheduler
    mainPc,               \* "config", "serving", "joining", "stopped"
    plan,                 \* the add_job calls the caller has yet to make
    joinStart,            \* when stop() began to join
    clock0,               \* the clock at process start
    regTime,              \* registration number -> time of add_job
    regBeforeStart,       \* registration numbers added before the first start()
    onceTicks             \* one-shot job -> the ticks that invoked its action

schedVars == <<jobs, jobRec, running, thread, now, tPc, tTime, tSnap, tIdx,
               tWake, tTick, tRaised, tRetry, mainPc, plan, joinStart, clock0,
               regTime, regBeforeStart, onceTicks>>

storeVars == <<db, last_fetch_time, clock, upstream>>
runVars == <<rPc, start_page, max_pages, end_page, external_page,
             consecutive_failures, requested, lastOkPage, completedRuns,
             runEnd, runOutcome, runsDone, runSnaps>>
fetchVars == <<attempt, fRequests, fSleeps, fResult, fLastResp>>
apiVars == <<upserts, lastBatch, repeated, snapBefore, snapAfter>>
callVars == <<vItem, vResult, gPage, gResponse, jobCall, bootPc>>

ingestVars == <<storeVars, runVars, fetchVars, apiVars, callVars>>

vars == <<ingestVars, schedVars>>

(***************************************************************************)
(* fetch_with_retry                                                        *)
(***************************************************************************)
\* status 200, a body json() parses, and isinstance(data, list)
AttemptSucceedsAnyStatus(resp) ==
    resp.kind = "http" /\ resp.body.shape = "array"

AttemptSucceeds(resp) ==
    resp.kind = "http" /\ resp.status = 200 /\ resp.body.shape = "array"

\* delay = RETRY_DELAY * (2 ** (attempt - 1))
BackoffDelayOffByOne(a) == RETRY_DELAY * Pow2(a)

BackoffDelay(a) == RETRY_DELAY * Pow2(a - 1)

\* one pass of the for loop over attempts
Attempt(resp) ==
    /\ rPc = "fetching"
    /\ fRequests' = fRequests + 1
    /\ IF AttemptSucceeds(resp)
       THEN /\ fResult' = [ok |-> TRUE, data |-> resp.body.items]
            /\ fLastResp' = resp
            /\ rPc' = "returned"
            /\ UNCHANGED <<attempt, fSleeps>>
       ELSE IF attempt < MAX_RETRIES
       THEN /\ fSleeps' = Append(fSleeps, BackoffDelay(attempt))
            /\ attempt' = attempt + 1
            /\ UNCHANGED <<fResult, fLastResp, rPc>>
       ELSE /\ fResult' = Failure
            /\ fLastResp' = resp
            /\ rPc' = "returned"
            /\ UNCHANGED <<attempt, fSleeps>>
    /\ UNCHANGED <<storeVars, apiVars, callVars, start_page, max_pages, end_page,
                   external_page, consecutive_failures, requested, lastOkPage,
                   completedRuns, runEnd, runOutcome, runsDone, runSnaps,
                   schedVars>>

UpstreamResponses(page) ==
    IF page \in DOMAIN upstream THEN {upstream[page]} ELSE Responses

FetchAttempt == \E resp \in UpstreamResponses(external_page) : Attempt(resp)

(***************************************************************************)
(* fetch_dogs_from_api                                                     *)
(***************************************************************************)
\* "if max_pages:" is Python truthiness: None and 0 are both false
MaxPagesGiven(mp) == ~mp.none /\ mp.n # 0

\* an unbounded run allowed one page more
EndPageOneMore(sp, mp) ==
    IF MaxPagesGiven(mp)
    THEN Min(sp + mp.n, MAX_EXTERNAL_PAGES + 1)
    ELSE MAX_EXTERNAL_PAGES + 2

EndPage(sp, mp) ==
    IF MaxPagesGiven(mp)
    THEN Min(sp + mp.n, MAX_EXTERNAL_PAGES + 1)
    ELSE MAX_EXTERNAL_PAGES + 1

\* the for loop takes page p, or falls out of range(start_page, end_page)
EnterPage(p, ep) ==
    IF p < ep
    THEN /\ external_page' = p
         /\ requested' = Append(requested, p)
         /\ rPc' = "fetching"
         /\ attempt' = 1
         /\ fRequests' = 0
         /\ fSleeps' = <<>>
         /\ fResult' = Failure
         /\ fLastResp' = NoResponse
         /\ runEnd' = "none"
    ELSE /\ rPc' = "finish"
         /\ runEnd' = "exhausted"
         /\ fLastResp' = NoResponse
         /\ UNCHANGED <<external_page, requested, attempt, fRequests, fSleeps,
                        fResult>>

\* the call fetch_dogs_from_api(sp, mp) up to its first page
BeginRun(sp, mp) ==
    /\ rPc = "idle"
    /\ runsDone < MaxRuns
    /\ start_page' = sp
    /\ max_pages' = mp
    /\ end_page' = EndPage(sp, mp)
    /\ consecutive_failures' = 0
    /\ runOutcome' = "none"
    /\ external_page' = sp
    /\ requested' = IF sp < EndPage(sp, mp) THEN <<sp>> ELSE <<>>
    /\ rPc' = IF sp < EndPage(sp, mp) THEN "fetching" ELSE "finish"
    /\ runEnd' = IF sp < EndPage(sp, mp) THEN "none" ELSE "exhausted"
    /\ attempt' = 1
    /\ fRequests' = 0
    /\ fSleeps' = <<>>
    /\ fResult' = Failure
    /\ fLastResp' = NoResponse
    /\ lastOkPage' = 0
    /\ clock' = clock + 1
    /\ UNCHANGED <<db, last_fetch_time, upstream, runsDone, completedRuns,
                   runSnaps, apiVars, schedVars>>

\* a call of fetch_dogs_from_api made outside a job
RunStart(sp, mp) == BeginRun(sp, mp) /\ UNCHANGED callVars

\* "if consecutive_failures >= 10"
ThresholdReachedLate(cf) == cf > FAILURE_THRESHOLD

ThresholdReached(cf) == cf >= FAILURE_THRESHOLD

\* "if len(external_data) == 0"
IsEmptyPageNever(data) == FALSE

IsEmptyPage(data) == Len(data) = 0

\* the loop body once fetch_with_retry has returned, the store answering
HandlePage ==
    /\ rPc = "returned"
    /\ lastOkPage' = IF fResult.ok THEN external_page ELSE lastOkPage
    /\ IF ~fResult.ok
       THEN /\ consecutive_failures' = consecutive_failures + 1
            /\ db' = db
            /\ IF ThresholdReached(consecutive_failures + 1)
               THEN /\ rPc' = "finish"
                    /\ runEnd' = "threshold"
                    /\ fLastResp' = NoResponse
                    /\ UNCHANGED <<external_page, requested, attempt,
                                   fRequests, fSleeps, fResult>>
               ELSE EnterPage(external_page + 1, end_page)
       ELSE /\ consecutive_failures' = 0
            /\ IF IsEmptyPage(fResult.data)
               THEN /\ rPc' = "finish"
                    /\ runEnd' = "empty"
                    /\ db' = db
                    /\ fLastResp' = NoResponse
                    /\ UNCHANGED <<external_page, requested, attempt,
                                   fRequests, fSleeps, fResult>>
               ELSE /\ db' = CHOOSE rows \in
                                 { IF validated_dogs # <<>>
                                   THEN add_dogs_batch(db, validated_dogs)
                                   ELSE db :
                                   validated_dogs \in
                                       {ValidatedDogs(fResult.data)} } : TRUE
                    /\ EnterPage(external_page + 1, end_page)
    /\ UNCHANGED <<last_fetch_time, clock, upstream, start_page, max_pages,
                   end_page, runOutcome, runsDone, completedRuns, runSnaps,
                   apiVars, callVars, schedVars>>

\* add_dogs_batch raises (sqlite3.Error): nothing of the batch is committed
\* and the exception leaves fetch_dogs_from_api
HandlePageStoreError ==
    /\ rPc = "returned"
    /\ fResult.ok
    /\ ~IsEmptyPage(fResult.data)
    /\ ValidatedDogs(fResult.data) # <<>>
    /\ lastOkPage' = external_page
    /\ rPc' = "idle"
    /\ consecutive_failures' = 0
    /\ runEnd' = "storeError"
    /\ runOutcome' = "raised"
    /\ runsDone' = runsDone + 1
    /\ fLastResp' = NoResponse
    /\ UNCHANGED <<storeVars, start_page, max_pages, end_page, external_page,
                   requested, completedRuns, runSnaps, attempt, fRequests,
                   fSleeps, fResult, apiVars, callVars, schedVars>>

\* after the loop: last_fetch_time = datetime.now().isoformat(), then the
\* logging read of the table, which returns (readOk) or raises
FinishRunSkipOnThreshold(readOk) ==
    /\ rPc = "finish"
    /\ clock' = clock + 1
    /\ last_fetch_time' = IF runEnd = "threshold" THEN last_fetch_time
                          ELSE [isNull |-> FALSE, t |-> clock + 1]
    /\ runOutcome' = IF readOk THEN "returned" ELSE "raised"
    /\ rPc' = "idle"
    /\ runsDone' = runsDone + 1
    /\ completedRuns' = completedRuns + 1
    /\ runSnaps' = runSnaps
    /\ UNCHANGED <<db, upstream, start_page, max_pages, end_page, external_page,
                   consecutive_failures, requested, lastOkPage, runEnd,
                   fetchVars, apiVars, callVars, schedVars>>

FinishRun(readOk) ==
    /\ rPc = "finish"
    /\ clock' = clock + 1
    /\ last_fetch_time' = [isNull |-> FALSE, t |-> clock + 1]
    /\ runOutcome' = IF readOk THEN "returned" ELSE "raised"
    /\ rPc' = "idle"
    /\ runsDone' = runsDone + 1
    /\ completedRuns' = completedRuns + 1
    /\ runSnaps' = IF DOMAIN upstream # {}
                   THEN Append(runSnaps, get_all_dogs_dict(db)) ELSE runSnaps
    /\ UNCHANGED <<db, upstream, start_page, max_pages, end_page, external_page,
                   consecutive_failures, requested, lastOkPage, runEnd,
                   fetchVars, apiVars, callVars, schedVars>>

(***************************************************************************)
(* Direct use of the store                                                 *)
(***************************************************************************)
ApiUpsert(dogs) ==
    /\ rPc = "idle"
    /\ upserts < MaxUpserts
    /\ db' = add_dogs_batch(db, dogs)
    /\ upserts' = upserts + 1
    /\ repeated' = (upserts > 0 /\ dogs = lastBatch)
    /\ snapBefore' = get_all_dogs_dict(db)
    /\ snapAfter' = get_all_dogs_dict(add_dogs_batch(db, dogs))
    /\ lastBatch' = dogs
    /\ UNCHANGED <<last_fetch_time, clock, upstream, runVars, fetchVars,
                   callVars, schedVars>>

\* a call validate_and_normalize_dog_data(vItem)
CallValidate ==
    /\ ~vResult.called
    /\ vResult' = [called |-> TRUE, raised |-> ValidateRaises(vItem),
                   value |-> IF ValidateRaises(vItem) THEN Rejected
                             ELSE validate_and_normalize_dog_data(vItem)]
    /\ UNCHANGED <<storeVars, runVars, fetchVars, apiVars, vItem, gPage,
                   gResponse, jobCall, bootPc, schedVars>>

\* one request GET /api/dogs?page=gPage; the read of the table returns
\* (readOk) or raises
GetDogs(readOk) ==
    /\ ~gResponse.served
    /\ gResponse' = IF readOk THEN get_dogs(db, gPage) ELSE InternalServerError
    /\ UNCHANGED <<storeVars, runVars, fetchVars, apiVars, vItem, vResult,
                   gPage, jobCall, bootPc, schedVars>>

(***************************************************************************)
(* BackgroundJobScheduler                                                  *)
(***************************************************************************)
Threads == 1..MaxThreads

\* add_job arguments: the action, and interval_seconds (None: once)
OnceArgs == [func |-> "full_fetch", once |-> TRUE, interval |-> 0]
EveryArgs == [func |-> "refresh", once |-> FALSE, interval |-> 5]

\* the registrations a caller makes, in order (the program's own: a
\* one-shot job, then a recurring one)
JobPlans ==
    { <<OnceArgs>>, <<EveryArgs>>, <<OnceArgs, EveryArgs>>,
      <<EveryArgs, OnceArgs>>, <<OnceArgs, OnceArgs>> }

\* the dict add_job builds; interval is None exactly when run_once
NewJob(a) ==
    [func |-> a.func, interval |-> a.interval, name |-> a.func, last_run |-> 0,
     run_once |-> a.once]

AddJob(a) ==
    /\ mainPc # "joining"
    /\ jobRec' = Append(jobRec, NewJob(a))
    /\ jobs' = Append(jobs, Len(jobRec) + 1)
    /\ regTime' = Append(regTime, now)
    /\ regBeforeStart' = IF thread = 0 THEN regBeforeStart \cup {Len(jobRec) + 1}
                         ELSE regBeforeStart
    /\ onceTicks' = Append(onceTicks, <<>>)
    /\ UNCHANGED <<ingestVars, running, thread, now, tPc, tTime, tSnap, tIdx, tWake, tTick,
                   tRaised, tRetry, mainPc, joinStart, clock0>>

\* start(): a second call while running only logs a warning
Start ==
    /\ mainPc # "joining"
    /\ mainPc' = "serving"
    /\ IF running
       THEN UNCHANGED <<running, thread, tPc>>
       ELSE /\ thread < MaxThreads
            /\ running' = TRUE
            /\ thread' = thread + 1
            /\ tPc' = [tPc EXCEPT ![thread + 1] = "loop"]
    /\ UNCHANGED <<ingestVars, plan, jobs, jobRec, now, tTime, tSnap, tIdx, tWake, tTick, tRaised,
                   tRetry, joinStart, clock0, regTime, regBeforeStart,
                   onceTicks>>

\* a loop that never reads self.running
LoopCheckIgnoresStop(t) ==
    /\ tPc[t] = "loop"
    /\ tPc' = [tPc EXCEPT ![t] = "iter"]
    /\ tTime' = [tTime EXCEPT ![t] = now]
    /\ tSnap' = [tSnap EXCEPT ![t] = jobs]
    /\ tIdx' = [tIdx EXCEPT ![t] = 1]
    /\ tTick' = [tTick EXCEPT ![t] = @ + 1]
    /\ tRetry' = [tRetry EXCEPT ![t] = tRaised[t]]
    /\ tRaised' = [tRaised EXCEPT ![t] = {}]
    /\ UNCHANGED <<ingestVars, plan, jobs, jobRec, running, thread, now, tWake, mainPc, joinStart,
                   clock0, regTime, regBeforeStart, onceTicks>>

\* "while self.running:" and the head of a tick
LoopCheck(t) ==
    /\ tPc[t] = "loop"
    /\ IF running
       THEN /\ tPc' = [tPc EXCEPT ![t] = "iter"]
            /\ tTime' = [tTime EXCEPT ![t] = now]
            /\ tSnap' = [tSnap EXCEPT ![t] = jobs]
            /\ tIdx' = [tIdx EXCEPT ![t] = 1]
            /\ tTick' = [tTick EXCEPT ![t] = @ + 1]
            /\ tRetry' = [tRetry EXCEPT ![t] = tRaised[t]]
            /\ tRaised' = [tRaised EXCEPT ![t] = {}]
       ELSE /\ tPc' = [tPc EXCEPT ![t] = "dead"]
            /\ UNCHANGED <<tTime, tSnap, tIdx, tTick, tRetry, tRaised>>
    /\ UNCHANGED <<ingestVars, plan, jobs, jobRec, running, thread, now, tWake, mainPc, joinStart,
                   clock0, regTime, regBeforeStart, onceTicks>>

\* "if time_since_last_run >= job['interval']"
IsDue(job, current_time) == current_time - job.last_run >= job.interval

\* the for loop reaches its next job, or the tick ends in time.sleep(1)
IterStep(t) ==
    /\ tPc[t] = "iter"
    /\ IF tIdx[t] > Len(tSnap[t])
       THEN /\ tPc' = [tPc EXCEPT ![t] = "sleep"]
            /\ tWake' = [tWake EXCEPT ![t] = now + POLL_SLEEP]
            /\ UNCHANGED <<tIdx, onceTicks>>
       ELSE LET j == tSnap[t][tIdx[t]] IN
            IF jobRec[j].run_once \/ IsDue(jobRec[j], tTime[t])
            THEN /\ tPc' = [tPc EXCEPT ![t] = "exec"]
                 /\ onceTicks' = IF jobRec[j].run_once
                                 THEN [onceTicks EXCEPT ![j] = Append(@, tTick[t])]
                                 ELSE onceTicks
                 /\ UNCHANGED <<tIdx, tWake>>
            ELSE /\ tIdx' = [tIdx EXCEPT ![t] = @ + 1]
                 /\ UNCHANGED <<tPc, tWake, onceTicks>>
    /\ UNCHANGED <<ingestVars, plan, jobs, jobRec, running, thread, now, tTime, tSnap, tTick,
                   tRaised, tRetry, mainPc, joinStart, clock0, regTime,
                   regBeforeStart>>

\* list.remove(x): the first element equal to x goes; dicts compare by content
RECURSIVE RemoveFirst(_, _)
RemoveFirst(list, rec) ==
    IF list = <<>> THEN <<>>
    ELSE IF jobRec[Head(list)] = rec THEN Tail(list)
    ELSE <<Head(list)>> \o RemoveFirst(Tail(list), rec)

HasEqual(list, rec) == \E i \in DOMAIN list : jobRec[list[i]] = rec

\* a one-shot job leaves self.jobs whether its action returned or raised
RemovedAfterOnlyIfOk(ok) == ok

RemovedAfter(ok) == TRUE

\* job['last_run'] = current_time follows the action inside the try block
LastRunAfterAlways(job, ok, current_time) == current_time

LastRunAfter(job, ok, current_time) ==
    IF ok THEN current_time ELSE job.last_run

\* the action of the job in hand returns (ok) or raises
ExecReturn(t, ok) ==
    /\ tPc[t] = "exec"
    /\ LET j == tSnap[t][tIdx[t]] IN
       IF jobRec[j].run_once
       THEN /\ IF ~RemovedAfter(ok)
               THEN /\ tPc' = [tPc EXCEPT ![t] = "iter"]
                    /\ jobs' = jobs
               ELSE IF HasEqual(jobs, jobRec[j])
               THEN /\ jobs' = RemoveFirst(jobs, jobRec[j])
                    /\ tPc' = [tPc EXCEPT ![t] = "iter"]
               ELSE \* ValueError leaves _run_loop: the thread ends
                    /\ jobs' = jobs
                    /\ tPc' = [tPc EXCEPT ![t] = "dead"]
            /\ UNCHANGED <<jobRec, tRaised>>
       ELSE /\ jobRec' = [jobRec EXCEPT ![j].last_run =
                                 LastRunAfter(jobRec[j], ok, tTime[t])]
            /\ tRaised' = [tRaised EXCEPT ![t] = IF ok THEN @ ELSE @ \cup {j}]
            /\ tPc' = [tPc EXCEPT ![t] = "iter"]
            /\ jobs' = jobs
    /\ tIdx' = [tIdx EXCEPT ![t] = @ + 1]
    /\ UNCHANGED <<plan, running, thread, now, tTime, tSnap, tWake, tTick, tRetry,
                   mainPc, joinStart, clock0, regTime, regBeforeStart,
                   onceTicks>>

\* a job whose action the model leaves abstract
ExecDone(t, ok) == ExecReturn(t, ok) /\ UNCHANGED ingestVars

\* time.sleep(1) returns
Wake(t) ==
    /\ tPc[t] = "sleep"
    /\ now >= tWake[t]
    /\ tPc' = [tPc EXCEPT ![t] = "loop"]
    /\ UNCHANGED <<ingestVars, plan, jobs, jobRec, running, thread, now, tTime, tSnap, tIdx, tWake,
                   tTick, tRaised, tRetry, mainPc, joinStart, clock0, regTime,
                   regBeforeStart, onceTicks>>

\* a second passes: the loop threads are asleep or inside a job's action
\* (the steps between take no time to speak of), and a join(timeout=5) in
\* progress has not used up its timeout
Tick ==
    /\ thread # 0
    /\ \A t \in Threads : tPc[t] \in {"none", "sleep", "exec", "dead"}
    /\ now < clock0 + MaxTime
    /\ mainPc = "joining" => now < joinStart + JOIN_TIMEOUT
    /\ now' = now + 1
    /\ UNCHANGED <<ingestVars, plan, jobs, jobRec, running, thread, tPc, tTime, tSnap, tIdx, tWake,
                   tTick, tRaised, tRetry, mainPc, joinStart, clock0, regTime,
                   regBeforeStart, onceTicks>>

\* stop(): self.running = False, then the join begins
StopSignal ==
    /\ mainPc = "serving"
    /\ mainPc' = "joining"
    /\ running' = FALSE
    /\ joinStart' = now
    /\ UNCHANGED <<ingestVars, plan, jobs, jobRec, thread, now, tPc, tTime, tSnap, tIdx, tWake,
                   tTick, tRaised, tRetry, clock0, regTime, regBeforeStart,
                   onceTicks>>

\* self.thread.join(timeout=5) returns: the thread ended or 5 s passed
StopReturn ==
    /\ mainPc = "joining"
    /\ mainPc' = "stopped"
    /\ \/ thread = 0
       \/ tPc[thread] = "dead"
       \/ now >= joinStart + JOIN_TIMEOUT
    /\ UNCHANGED <<ingestVars, plan, jobs, jobRec, running, thread, now, tPc, tTime, tSnap, tIdx,
                   tWake, tTick, tRaised, tRetry, joinStart, clock0, regTime,
                   regBeforeStart, onceTicks>>

(***************************************************************************)
(* periodic_cache_refresh_job as the action of a scheduled job             *)
(***************************************************************************)
\* the action is entered: the read of the table for the log line returns
\* (readOk) and the full run begins, or raises and the action ends
JobBegin(t, readOk) ==
    /\ tPc[t] = "exec"
    /\ jobRec[tSnap[t][tIdx[t]]].func = "refresh"
    /\ jobCall = "none"
    /\ rPc = "idle"
    /\ IF readOk
       THEN /\ BeginRun(1, NoneArg)
            /\ jobCall' = "running"
            /\ UNCHANGED <<vItem, vResult, gPage, gResponse, bootPc>>
       ELSE /\ ExecReturn(t, FALSE)
            /\ UNCHANGED ingestVars

\* an action that swallows what fetch_dogs_from_api raises
JobEndSwallows(t, readOk) ==
    /\ tPc[t] = "exec"
    /\ jobCall = "running"
    /\ rPc = "idle"
    /\ ExecReturn(t, readOk)
    /\ jobCall' = "none"
    /\ UNCHANGED <<storeVars, runVars, fetchVars, apiVars, vItem, vResult,
                   gPage, gResponse, bootPc>>

\* fetch_dogs_from_api has returned or raised: the action returns after its
\* last read of the table (readOk), or raises
JobEnd(t, readOk) ==
    /\ tPc[t] = "exec"
    /\ jobCall = "running"
    /\ rPc = "idle"
    /\ ExecReturn(t, runOutcome = "returned" /\ readOk)
    /\ jobCall' = "none"
    /\ UNCHANGED <<storeVars, runVars, fetchVars, apiVars, vItem, vResult,
                   gPage, gResponse, bootPc>>

\* upstreams of JobPages pages that answer each page the same way every
\* time and end in an empty page
JobResponses ==
    { Http(200, ArrayBody(<<ItemPug1>>)), Http(200, ArrayBody(<<ItemUrl, ItemAkita>>)),
      Http(200, ArrayBody(<<>>)), Http(500, ObjectBody) }

JobUpstreams ==
    {f \in [1..JobPages -> JobResponses] :
        f[JobPages] = Http(200, ArrayBody(<<>>))}

(***************************************************************************)
(* quick_initial_fetch and the start of __main__                           *)
(***************************************************************************)
\* a bootstrap that fetches whatever the table holds
QuickInitialFetchAlways ==
    /\ bootPc = "start"
    /\ BeginRun(1, IntArg(5))
    /\ bootPc' = "fetching"
    /\ UNCHANGED <<vItem, vResult, gPage, gResponse, jobCall>>

\* quick_initial_fetch() up to the call of fetch_dogs_from_api, or to its
\* return when the table is not empty
QuickInitialFetch ==
    /\ bootPc = "start"
    /\ IF Cardinality(DOMAIN get_all_dogs_dict(db)) = 0
       THEN /\ BeginRun(1, IntArg(5))
            /\ bootPc' = "fetching"
            /\ UNCHANGED <<vItem, vResult, gPage, gResponse, jobCall>>
       ELSE /\ bootPc' = "done"
            /\ UNCHANGED <<storeVars, runVars, fetchVars, apiVars, vItem,
                           vResult, gPage, gResponse, jobCall, schedVars>>

\* fetch_dogs_from_api has returned, or raised: then __main__ ends there
QuickInitialFetchReturn ==
    /\ bootPc = "fetching"
    /\ rPc = "idle"
    /\ bootPc' = IF runOutcome = "returned" THEN "done" ELSE "crashed"
    /\ UNCHANGED <<storeVars, runVars, fetchVars, apiVars, vItem, vResult,
                   gPage, gResponse, jobCall, schedVars>>

\* the registrations of __main__
MainPlan == <<OnceArgs, EveryArgs>>

(***************************************************************************)
(* Specifications                                                          *)
(***************************************************************************)
InitCommon ==
    /\ db \in InitialTables
    /\ last_fetch_time = NullTime
    /\ rPc = "idle"
    /\ start_page = 1
    /\ max_pages = NoneArg
    /\ end_page = MAX_EXTERNAL_PAGES + 1
    /\ external_page = 1
    /\ consecutive_failures = 0
    /\ requested = <<>>
    /\ lastOkPage = 0
    /\ completedRuns = 0
    /\ runEnd = "none"
    /\ runOutcome = "none"
    /\ runsDone = 0
    /\ runSnaps = <<>>
    /\ attempt = 1
    /\ fRequests = 0
    /\ fSleeps = <<>>
    /\ fResult = Failure
    /\ fLastResp = NoResponse
    /\ upserts = 0
    /\ lastBatch = <<>>
    /\ snapBefore = <<>>
    /\ snapAfter = <<>>
    /\ repeated = FALSE
    /\ vItem = NonDict
    /\ vResult = NotCalled
    /\ gPage = 1
    /\ gResponse = NotServed
    /\ jobCall = "none"
    /\ bootPc = "done"

\* the scheduler as constructed: no job, not running, no thread
InitSched ==
    /\ jobs = <<>>
    /\ jobRec = <<>>
    /\ running = FALSE
    /\ thread = 0
    /\ clock0 = EpochStart
    /\ now = clock0
    /\ tPc = [t \in Threads |-> "none"]
    /\ tTime = [t \in Threads |-> 0]
    /\ tSnap = [t \in Threads |-> <<>>]
    /\ tIdx = [t \in Threads |-> 1]
    /\ tWake = [t \in Threads |-> 0]
    /\ tTick = [t \in Threads |-> 0]
    /\ tRaised = [t \in Threads |-> {}]
    /\ tRetry = [t \in Threads |-> {}]
    /\ mainPc = "config"
    /\ plan = <<>>
    /\ joinStart = 0
    /\ regTime = <<>>
    /\ regBeforeStart = {}
    /\ onceTicks = <<>>

\* ingestion runs against an upstream free to answer each request anew
InitIngest ==
    /\ InitCommon
    /\ InitSched
    /\ clock = EpochStart
    /\ upstream = <<>>

NextIngest ==
    \/ \E a \in RunArgs : RunStart(a[1], a[2])
    \/ FetchAttempt
    \/ HandlePage
    \/ HandlePageStoreError
    \/ \E readOk \in BOOLEAN : FinishRun(readOk)

SpecIngest == InitIngest /\ [][NextIngest]_vars

\* one run followed to its end when every upstream request returns or times
\* out and the interpreter keeps executing: each step of the run is
\* eventually taken
RunStep ==
    \/ FetchAttempt
    \/ HandlePage
    \/ HandlePageStoreError
    \/ \E readOk \in BOOLEAN : FinishRun(readOk)

NextOneRun ==
    \/ \E a \in RunArgs : runsDone = 0 /\ RunStart(a[1], a[2])
    \/ RunStep

SpecIngestFair ==
    /\ InitIngest
    /\ [][NextOneRun]_vars
    /\ WF_vars(RunStep)

\* the store seeded by direct batches, then the same bounded run repeated
\* against an upstream that answers each page the same way every time
InitStore ==
    /\ InitCommon
    /\ InitSched
    /\ clock = EpochStart
    /\ upstream \in [1..RerunPages -> FixedResponses]

NextStore ==
    \/ \E dogs \in Batches : runsDone = 0 /\ ApiUpsert(dogs)
    \/ RunStart(1, IntArg(RerunPages))
    \/ FetchAttempt
    \/ HandlePage
    \/ HandlePageStoreError
    \/ \E readOk \in BOOLEAN : FinishRun(readOk)

SpecStore == InitStore /\ [][NextStore]_vars

\* the validator called on one raw item
InitValidate ==
    /\ InitSched
    /\ db = {}
    /\ last_fetch_time = NullTime
    /\ rPc = "idle"
    /\ start_page = 1
    /\ max_pages = NoneArg
    /\ end_page = MAX_EXTERNAL_PAGES + 1
    /\ external_page = 1
    /\ consecutive_failures = 0
    /\ requested = <<>>
    /\ lastOkPage = 0
    /\ completedRuns = 0
    /\ runEnd = "none"
    /\ runOutcome = "none"
    /\ runsDone = 0
    /\ runSnaps = <<>>
    /\ attempt = 1
    /\ fRequests = 0
    /\ fSleeps = <<>>
    /\ fResult = Failure
    /\ fLastResp = NoResponse
    /\ upserts = 0
    /\ lastBatch = <<>>
    /\ snapBefore = <<>>
    /\ snapAfter = <<>>
    /\ repeated = FALSE
    /\ clock = EpochStart
    /\ upstream = <<>>
    /\ vItem \in ValidatorInputs
    /\ vResult = NotCalled
    /\ gPage = 1
    /\ gResponse = NotServed
    /\ jobCall = "none"
    /\ bootPc = "done"

NextValidate == CallValidate

SpecValidate == InitValidate /\ [][NextValidate]_vars

\* the listing endpoint read once over a store of some size
InitRead ==
    /\ InitSched
    /\ db \in {TableOf(n) : n \in 0..MaxStoreSize}
    /\ last_fetch_time = NullTime
    /\ rPc = "idle"
    /\ start_page = 1
    /\ max_pages = NoneArg
    /\ end_page = MAX_EXTERNAL_PAGES + 1
    /\ external_page = 1
    /\ consecutive_failures = 0
    /\ requested = <<>>
    /\ lastOkPage = 0
    /\ completedRuns = 0
    /\ runEnd = "none"
    /\ runOutcome = "none"
    /\ runsDone = 0
    /\ runSnaps = <<>>
    /\ attempt = 1
    /\ fRequests = 0
    /\ fSleeps = <<>>
    /\ fResult = Failure
    /\ fLastResp = NoResponse
    /\ upserts = 0
    /\ lastBatch = <<>>
    /\ snapBefore = <<>>
    /\ snapAfter = <<>>
    /\ repeated = FALSE
    /\ clock = EpochStart
    /\ upstream = <<>>
    /\ vItem = NonDict
    /\ vResult = NotCalled
    /\ gPage \in (0 - MaxPage)..MaxPage
    /\ gResponse = NotServed
    /\ jobCall = "none"
    /\ bootPc = "done"

NextRead == \E readOk \in BOOLEAN : GetDogs(readOk)

SpecRead == InitRead /\ [][NextRead]_vars

\* the scheduler driven as the program drives it: jobs are registered, the
\* scheduler is started once, the loop polls, stop() is called at exit
InitScheduler ==
    /\ InitCommon
    /\ db = {}
    /\ clock = EpochStart
    /\ upstream = <<>>
    /\ jobs = <<>>
    /\ jobRec = <<>>
    /\ running = FALSE
    /\ thread = 0
    /\ clock0 \in {0, EpochStart}
    /\ now = clock0
    /\ tPc = [t \in Threads |-> "none"]
    /\ tTime = [t \in Threads |-> 0]
    /\ tSnap = [t \in Threads |-> <<>>]
    /\ tIdx = [t \in Threads |-> 1]
    /\ tWake = [t \in Threads |-> 0]
    /\ tTick = [t \in Threads |-> 0]
    /\ tRaised = [t \in Threads |-> {}]
    /\ tRetry = [t \in Threads |-> {}]
    /\ mainPc = "config"
    /\ plan \in JobPlans
    /\ joinStart = 0
    /\ regTime = <<>>
    /\ regBeforeStart = {}
    /\ onceTicks = <<>>

NextScheduler ==
    \/ mainPc = "config" /\ plan # <<>> /\ AddJob(Head(plan)) /\ plan' = Tail(plan)
    \/ mainPc \in {"config", "serving"} /\ plan = <<>> /\ Start
    \/ \E t \in Threads : LoopCheck(t)
    \/ \E t \in Threads : IterStep(t)
    \/ \E t \in Threads, ok \in BOOLEAN : ExecDone(t, ok)
    \/ \E t \in Threads : Wake(t)
    \/ Tick
    \/ StopSignal
    \/ StopReturn

SpecScheduler == InitScheduler /\ [][NextScheduler]_vars

\* the same scheduler when the caller may call start() again after stop()
InitRestart ==
    /\ InitScheduler
    /\ clock0 = EpochStart
    /\ plan \in {<<OnceArgs>>, <<EveryArgs>>}

NextRestart ==
    \/ mainPc = "config" /\ plan # <<>> /\ AddJob(Head(plan)) /\ plan' = Tail(plan)
    \/ mainPc \in {"config", "serving", "stopped"} /\ plan = <<>> /\ Start
    \/ \E t \in Threads : LoopCheck(t)
    \/ \E t \in Threads : IterStep(t)
    \/ \E t \in Threads, ok \in BOOLEAN : ExecDone(t, ok)
    \/ \E t \in Threads : Wake(t)
    \/ now < clock0 + MaxRestartTime /\ Tick
    \/ StopSignal
    \/ StopReturn

SpecRestart == InitRestart /\ [][NextRestart]_vars

\* a recurring refresh job registered and run by the scheduler
InitJobRun ==
    /\ InitCommon
    /\ InitSched
    /\ db = {}
    /\ clock = EpochStart
    /\ upstream \in JobUpstreams

NextJobRun ==
    \/ mainPc = "config" /\ jobRec = <<>> /\ AddJob(EveryArgs) /\ plan' = plan
    \/ mainPc = "config" /\ jobRec # <<>> /\ Start
    \/ \E t \in Threads : LoopCheck(t)
    \/ \E t \in Threads : IterStep(t)
    \/ \E t \in Threads, readOk \in BOOLEAN : JobBegin(t, readOk)
    \/ FetchAttempt
    \/ HandlePage
    \/ HandlePageStoreError
    \/ \E readOk \in BOOLEAN : FinishRun(readOk)
    \/ \E t \in Threads, readOk \in BOOLEAN : JobEnd(t, readOk)
    \/ \E t \in Threads : Wake(t)
    \/ now < clock0 + MaxJobTime /\ Tick

SpecJobRun == InitJobRun /\ [][NextJobRun]_vars

\* the process from its start to scheduler.start()
InitBootstrap ==
    /\ InitSched
    /\ db \in InitialTables
    /\ last_fetch_time = NullTime
    /\ rPc = "idle"
    /\ start_page = 1
    /\ max_pages = NoneArg
    /\ end_page = MAX_EXTERNAL_PAGES + 1
    /\ external_page = 1
    /\ consecutive_failures = 0
    /\ requested = <<>>
    /\ lastOkPage = 0
    /\ completedRuns = 0
    /\ runEnd = "none"
    /\ runOutcome = "none"
    /\ runsDone = 0
    /\ runSnaps = <<>>
    /\ attempt = 1
    /\ fRequests = 0
    /\ fSleeps = <<>>
    /\ fResult = Failure
    /\ fLastResp = NoResponse
    /\ upserts = 0
    /\ lastBatch = <<>>
    /\ snapBefore = <<>>
    /\ snapAfter = <<>>
    /\ repeated = FALSE
    /\ clock = EpochStart
    /\ upstream = <<>>
    /\ vItem = NonDict
    /\ vResult = NotCalled
    /\ gPage = 1
    /\ gResponse = NotServed
    /\ jobCall = "none"
    /\ bootPc = "start"

NextBootstrap ==
    \/ QuickInitialFetch
    \/ FetchAttempt
    \/ HandlePage
    \/ HandlePageStoreError
    \/ \E readOk \in BOOLEAN : FinishRun(readOk)
    \/ QuickInitialFetchReturn
    \/ bootPc = "done" /\ mainPc = "config" /\ Len(jobRec) < Len(MainPlan)
          /\ AddJob(MainPlan[Len(jobRec) + 1]) /\ plan' = plan
    \/ bootPc = "done" /\ mainPc = "config" /\ Len(jobRec) = Len(MainPlan) /\ Start

SpecBootstrap == InitBootstrap /\ [][NextBootstrap]_vars

(***************************************************************************)
(* Properties                                                              *)
(***************************************************************************)
Range(f) == {f[i] : i \in DOMAIN f}

\* the job a loop thread has in hand
InHand(t) == tSnap[t][tIdx[t]]

OneShots == {j \in DOMAIN jobRec : jobRec[j].run_once}
Recurring == {j \in DOMAIN jobRec : ~jobRec[j].run_once}

\* C1: a one-shot job registered before start() is invoked at most once,
\* and only in the first tick of the loop; it stays in self.jobs only until
\* that invocation has returned or raised, so from the second tick on it has
\* been invoked exactly once and is gone from self.jobs.
C1_OneShotRunsOnce ==
    \A j \in OneShots \cap regBeforeStart :
        /\ Len(onceTicks[j]) <= 1
        /\ onceTicks[j] # <<>> => onceTicks[j] = <<1>>
        /\ j \in Range(jobs) =>
              \/ onceTicks[j] = <<>>
              \/ \E t \in Threads : tPc[t] = "exec" /\ InHand(t) = j
        /\ (\E t \in Threads : tTick[t] >= 2) =>
              (onceTicks[j] = <<1>> /\ j \notin Range(jobs))

C1_Witness ==
    /\ tTick[1] >= 10
    /\ OneShots # {}
    /\ \A j \in OneShots : onceTicks[j] = <<1>> /\ j \notin Range(jobs)

\* C2: a recurring job's action is never invoked in a tick that begins less
\* than interval seconds after the job was registered, nor in a tick where
\* current_time - last_run < interval.
C2_Original ==
    \A t \in Threads :
        (tPc[t] = "exec" /\ ~jobRec[InHand(t)].run_once) =>
            /\ tTime[t] - regTime[InHand(t)] >= jobRec[InHand(t)].interval
            /\ tTime[t] - jobRec[InHand(t)].last_run >= jobRec[InHand(t)].interval

\* C3: a recurring job's last_run changes only in the step in which its
\* action returns without raising, and becomes that tick's current_time; when
\* the action raises, last_run stays, the thread goes on with its tick and the
\* job stays in self.jobs; in the thread's next tick the job is invoked again.
C3_LastRunOnlyOnSuccess ==
    [][ /\ \A j \in Recurring :
              jobRec'[j].last_run # jobRec[j].last_run =>
                  \E t \in Threads :
                      /\ tPc[t] = "exec" /\ InHand(t) = j
                      /\ tPc'[t] = "iter"
                      /\ j \notin tRaised'[t]
                      /\ jobRec'[j].last_run = tTime[t]
        /\ \A t \in Threads :
              (tPc[t] = "exec" /\ tPc'[t] # "exec" /\ InHand(t) \in tRaised'[t]) =>
                  /\ jobRec'[InHand(t)].last_run = jobRec[InHand(t)].last_run
                  /\ tPc'[t] = "iter"
                  /\ InHand(t) \in Range(jobs')
        /\ \A t \in Threads :
              (tPc[t] = "iter" /\ tIdx[t] <= Len(tSnap[t])
                 /\ InHand(t) \in tRetry[t]) =>
                  ~(tPc'[t] = "iter" /\ tIdx'[t] = tIdx[t] + 1)
        /\ \A t \in Threads :
              (tPc[t] = "loop" /\ tPc'[t] = "iter") =>
                  tRaised[t] \subseteq Range(tSnap'[t])
      ]_vars

C3_Witness ==
    \E t \in Threads :
        /\ tPc[t] = "exec"
        /\ InHand(t) \in tRetry[t]
        /\ jobRec[InHand(t)].last_run > 0
        /\ tTime[t] - jobRec[InHand(t)].last_run = jobRec[InHand(t)].interval + 1

MaxOf(a, b) == IF a >= b THEN a ELSE b

\* the backoff waits the claim gives for a call that returned on attempt k
ClaimedSleeps(k) == [i \in 1..(k - 1) |-> IF i = 1 THEN 1 ELSE 2]

\* C4: a fetch_with_retry call whose attempts all fail has made exactly 3
\* requests, waited 1 s then 2 s and nothing after the third, and returns
\* Failure; a call whose attempt k succeeds has made exactly k requests
\* (waiting only between them) and returns that attempt's list.
C4_RetrySchedule ==
    rPc = "returned" =>
        /\ (~fResult.ok => (fRequests = 3 /\ fSleeps = <<1, 2>>))
        /\ (fResult.ok =>
              (/\ fRequests \in 1..3
               /\ fRequests = attempt
               /\ fSleeps = ClaimedSleeps(fRequests)
               /\ fResult.data = fLastResp.body.items))

C4_Witness ==
    /\ rPc = "returned"
    /\ ~fResult.ok
    /\ fRequests = 3
    /\ fSleeps = <<1, 2>>

AllObjects(items) == \A i \in DOMAIN items : items[i].type = "dict"

\* C5 as stated: a call returns a list only from a response with status 200
\* whose body is an array of objects only.
C5_Original ==
    (rPc = "returned" /\ fResult.ok) =>
        /\ fLastResp.kind = "http"
        /\ fLastResp.status = 200
        /\ fLastResp.body.shape = "array"
        /\ AllObjects(fLastResp.body.items)

\* C5 amended: a call returns a list only from a response with status 200
\* whose body is a JSON array, whatever its elements; it returns Failure only
\* when the third attempt, too, had another status, another body shape or a
\* raised error, so every such attempt before the third was retried.
C5_SuccessIsStatus200Array ==
    rPc = "returned" =>
        /\ (fResult.ok =>
              (/\ fLastResp.kind = "http"
               /\ fLastResp.status = 200
               /\ fLastResp.body.shape = "array"))
        /\ (~fResult.ok =>
              (/\ fRequests = MAX_RETRIES
               /\ ~(fLastResp.kind = "http" /\ fLastResp.status = 200
                       /\ fLastResp.body.shape = "array")))

C5_Witness ==
    /\ rPc = "returned"
    /\ fResult.ok
    /\ ~AllObjects(fResult.data)

\* C6: the step that handles a successfully fetched page of zero items
\* leaves the loop without writing to the store or requesting a page, and
\* the run then ends with no further request and no write.
C6_EmptyPageStops ==
    [][ /\ (rPc = "returned" /\ fResult.ok /\ Len(fResult.data) = 0) =>
              (rPc' = "finish" /\ runEnd' = "empty" /\ db' = db
                 /\ requested' = requested)
        /\ (rPc = "finish" /\ runEnd = "empty") =>
              (rPc' = "idle" /\ db' = db /\ requested' = requested)
      ]_vars

C6_Witness ==
    /\ rPc = "idle"
    /\ runEnd = "empty"
    /\ start_page = 1
    /\ external_page = 7
    /\ requested = <<1, 2, 3, 4, 5, 6, 7>>
    /\ db # {}

\* pages of the current run fetched without success since the last success
FailedInARow(lastPage) == lastPage - MaxOf(lastOkPage, start_page - 1)

\* C7 as stated: a streak of 10 failed pages that starts at page 3 stops the
\* run at page 13.
C7_Original ==
    (rPc = "finish" /\ runEnd = "threshold" /\ lastOkPage = 2) =>
        external_page = 13

\* C7 amended: the run stops on failures exactly when 10 pages in a row have
\* failed; consecutive_failures counts the failed pages since the last
\* success; a streak that starts at page 3 stops the run at page 12, the
\* last page requested.
C7_StopsAtTenthFailure ==
    /\ (rPc = "finish" /\ runEnd = "threshold") =>
          (/\ FailedInARow(external_page) = 10
           /\ requested[Len(requested)] = external_page
           /\ (lastOkPage = 2 => external_page = 12))
    /\ rPc = "fetching" =>
          (/\ FailedInARow(external_page - 1) < 10
           /\ consecutive_failures = FailedInARow(external_page - 1))
    /\ (rPc = "returned" /\ ~fResult.ok /\ FailedInARow(external_page) < 10) =>
          runEnd = "none"

C7_Witness ==
    /\ rPc = "idle"
    /\ runEnd = "threshold"
    /\ start_page = 1
    /\ lastOkPage = 2
    /\ external_page = 12
    /\ Len(requested) = 12

\* the end page the claim gives
ClaimedEndPage ==
    IF max_pages.none THEN 51 ELSE Min(start_page + max_pages.n, 51)

\* C8: the pages a run requests start at start_page, increase by one, and
\* all lie in [start_page, end page), the end page being 51 for an unbounded
\* run and min(start_page + n, 51) for max_pages = n, for every n >= 0.
C8_PagesWithinRange ==
    /\ \A i \in DOMAIN requested : requested[i] = start_page + i - 1
    /\ \A i \in DOMAIN requested :
          start_page <= requested[i] /\ requested[i] < ClaimedEndPage
    /\ ~max_pages.none => Len(requested) <= max_pages.n

\* C9: last_fetch_time is None until a run has reached the end of its loop;
\* every run that leaves its loop (range exhausted, empty page, failure
\* threshold) sets it to the time at that moment; no other step changes it.
C9_LastFetchTime ==
    /\ [](completedRuns = 0 => last_fetch_time = NullTime)
    /\ [][ /\ (rPc = "finish" /\ rPc' = "idle") =>
                  (/\ runEnd \in {"exhausted", "empty", "threshold"}
                   /\ last_fetch_time' = [isNull |-> FALSE, t |-> clock'])
           /\ ~(rPc = "finish" /\ rPc' = "idle") =>
                  last_fetch_time' = last_fetch_time
      ]_vars

C9_Witness ==
    /\ rPc = "idle"
    /\ runEnd = "threshold"
    /\ completedRuns = 2
    /\ ~last_fetch_time.isNull
    /\ last_fetch_time.t = clock

\* C10: applying a batch a second time leaves get_all_dogs_dict() as the
\* first application left it, and a run repeated against an unchanged
\* upstream ends with the snapshot the run before it ended with.
C10_UpsertIdempotent ==
    /\ repeated => snapAfter = snapBefore
    /\ \A i, j \in DOMAIN runSnaps : runSnaps[i] = runSnaps[j]

C10_Witness ==
    /\ repeated
    /\ Len(lastBatch) = 2
    /\ DOMAIN snapAfter # {}
    /\ Len(runSnaps) = 2
    /\ DOMAIN runSnaps[2] # {}

\* the keys of a batch, and the image a batch gives last for a key
BatchKeys(dogs) == {dogs[i].breed : i \in DOMAIN dogs}

LastImage(dogs, k) ==
    dogs[CHOOSE i \in DOMAIN dogs :
            /\ dogs[i].breed = k
            /\ \A j \in DOMAIN dogs : j > i => dogs[j].breed # k].image

SameLetter(a, b) == LowerChar(a) = LowerChar(b)

ContainsAnyCase(s, sub) ==
    \E i \in 1..(Len(s) - Len(sub) + 1) :
        \A k \in 1..Len(sub) : SameLetter(s[i + k - 1], sub[k])

\* the inputs the claim says are rejected
ClaimedRejected(item) ==
    \/ item.type # "dict"
    \/ item.breed.t # "str"
    \/ Strip(item.breed.s) = <<>>
    \/ Len(Strip(item.breed.s)) > 60
    \/ \E u \in URL_MARKS \cup IMAGE_EXTS :
          ContainsAnyCase(Strip(item.breed.s), u)

\* C12: a call of the validator never raises; it returns None for a
\* non-dict, for a breed that is missing, not a string or blank, and for a
\* trimmed breed longer than 60 characters or holding http://, https:// or
\* an image extension in any letter case; for every other item it returns a
\* record whose breed is the trimmed breed.
C12_ValidatorRejects ==
    vResult.called =>
        /\ ~vResult.raised
        /\ ClaimedRejected(vItem) => vResult.value = Rejected
        /\ ~ClaimedRejected(vItem) =>
              (vResult.value.ok /\ vResult.value.breed = Strip(vItem.breed.s))

C12_Witness ==
    /\ vResult.called
    /\ vItem.type = "dict"
    /\ vItem.breed = StrV(<<"x","h","T","t","P","s",":","/","/","y">>)
    /\ vResult.value = Rejected

\* the listing the claim gives: the records sorted by breed, and of them
\* the slice [(p-1)*15, p*15) for an in-range page p, nothing otherwise
ClaimedTotalPages(total) == (total + 14) \div 15

ClaimedListing(rows, p) ==
    LET breeds == SortedBreeds({r.breed : r \in rows})
        total == Len(breeds)
    IN  IF p < 1 \/ p > ClaimedTotalPages(total) THEN <<>>
        ELSE [i \in 1..(Min(p * 15, total) - (p - 1) * 15) |->
                 breeds[(p - 1) * 15 + i]]

\* C13: a request the store answers is served with status 200; the body is
\* empty for page 0, a negative page and a page past the last one, and is
\* the slice [(p-1)*15, p*15) of the records sorted by breed otherwise.
C13_Original ==
    (gResponse.served /\ gResponse.status = 200) =>
        /\ Len(gResponse.body) <= 15
        /\ [i \in DOMAIN gResponse.body |-> gResponse.body[i].breed]
               = ClaimedListing(db, gPage)

\* the same for pages from 0 upward
C13_NonNegativePages ==
    gPage >= 0 => C13_Original

\* the loop threads that have been started and have not ended
Alive == {t \in Threads : tPc[t] \in {"loop", "iter", "exec", "sleep"}}

\* the loop threads inside a job's action
Executing == {t \in Threads : tPc[t] = "exec"}

\* C14: at every moment at most one _run_loop thread is alive and at most
\* one job action is executing, stop() followed by start() included.
C14_Original ==
    /\ Cardinality(Alive) <= 1
    /\ Cardinality(Executing) <= 1

\* two actions executing at once
C14_NoTwoExecuting == Cardinality(Executing) <= 1

\* stop() has been called
StopCalled == mainPc \in {"joining", "stopped"}

\* C15: once stop() has been called no thread begins a tick; the call of
\* stop() and its return leave every thread where it is (an action in
\* flight goes on), and a thread in the middle of a tick goes on to the
\* remaining jobs of that tick, invoking those that are due; stop() has
\* returned by the time 5 seconds have passed since it was called, whether
\* or not the tick has finished.
C15_StopIsCooperative ==
    /\ [](mainPc = "joining" => now <= joinStart + JOIN_TIMEOUT)
    /\ [][ /\ StopCalled => tTick' = tTick
           /\ (mainPc' # mainPc /\ mainPc' \in {"joining", "stopped"}) =>
                 (tPc' = tPc /\ tIdx' = tIdx /\ tSnap' = tSnap /\ jobs' = jobs)
           /\ \A t \in Threads :
                 (StopCalled /\ tPc[t] = "iter" /\ tIdx[t] <= Len(tSnap[t])
                    /\ <<tPc[t], tIdx[t]>> # <<tPc'[t], tIdx'[t]>>) =>
                     IF jobRec[InHand(t)].run_once
                           \/ IsDue(jobRec[InHand(t)], tTime[t])
                     THEN tPc'[t] = "exec" /\ tIdx'[t] = tIdx[t]
                     ELSE tPc'[t] = "iter" /\ tIdx'[t] = tIdx[t] + 1
         ]_vars

C15_Witness ==
    /\ mainPc = "stopped"
    /\ now = joinStart + JOIN_TIMEOUT
    /\ \E t \in Threads :
          /\ tPc[t] = "exec"
          /\ tIdx[t] = 1
          /\ Len(tSnap[t]) = 2
          /\ tTime[t] <= joinStart

\* C16: the step in which add_dogs_batch raises inside a scheduled refresh
\* ends the run with the store as the earlier pages left it and no page
\* requested; until the job action has ended nothing is requested or
\* written; the action ends as a raise the loop catches: the thread goes on
\* with its tick, the job stays registered and its last_run unchanged; no
\* loop thread ever ends.
C16_StoreErrorInJob ==
    /\ [](\A t \in Threads : tPc[t] # "dead")
    /\ [][ /\ (rPc = "returned" /\ runEnd' = "storeError") =>
                 (/\ rPc' = "idle" /\ runOutcome' = "raised"
                  /\ db' = db /\ requested' = requested /\ jobRec' = jobRec)
           /\ (jobCall = "running" /\ rPc = "idle" /\ runEnd = "storeError") =>
                 (/\ rPc' = "idle" /\ db' = db /\ requested' = requested
                  /\ runsDone' = runsDone
                  /\ \A t \in Threads :
                        (tPc[t] = "exec" /\ tPc'[t] # "exec") =>
                            /\ tPc'[t] = "iter"
                            /\ jobRec'[InHand(t)].last_run
                                  = jobRec[InHand(t)].last_run
                            /\ InHand(t) \in Range(jobs')
                            /\ InHand(t) \in tRaised'[t])
         ]_vars

C16_Witness ==
    /\ runEnd = "storeError"
    /\ requested = <<1, 2>>
    /\ db # {}
    /\ jobCall = "none"
    /\ \E t \in Threads :
          /\ tPc[t] = "exec"
          /\ tTick[t] >= 2
          /\ InHand(t) \in tRetry[t]
          /\ jobRec[InHand(t)].last_run = 0

\* a breed name as the claim describes the keys of the store
ClaimedValidKey(k) ==
    /\ k # <<>>
    /\ Head(k) \notin Whitespace
    /\ k[Len(k)] \notin Whitespace
    /\ Len(k) <= 60
    /\ \A u \in URL_MARKS \cup IMAGE_EXTS : ~ContainsAnyCase(k, u)

StoreKeys == {r.breed : r \in db}

\* C17: every breed in the table is non-empty, trimmed, at most 60
\* characters long and free of URL marks and image extensions; and a page
\* handled without a store error leaves every item the validator accepts
\* in the table (under its trimmed breed), the rejected items of the page
\* notwithstanding, and adds no other breed.
C17_StoredKeysValid ==
    /\ [](\A k \in StoreKeys : ClaimedValidKey(k))
    /\ [][ (rPc = "returned" /\ fResult.ok /\ runEnd' # "storeError") =>
              LET accepted ==
                      {Strip(fResult.data[i].breed.s) :
                          i \in {n \in DOMAIN fResult.data :
                                   ~ClaimedRejected(fResult.data[n])}}
              IN  {r.breed : r \in db'} = StoreKeys \cup accepted
         ]_vars

C17_Witness ==
    /\ sAkita \in StoreKeys
    /\ sPug \in StoreKeys
    /\ rPc = "idle"
    /\ runEnd = "exhausted"
    /\ completedRuns = 1

\* C18: no step removes a breed from the table, whether a direct
\* add_dogs_batch call, a step of a run or the read at the end of a run; the
\* step that handles a failed fetch or an empty page, and the end of a run,
\* leave the table as it is.
C18_KeysNeverShrink ==
    [][ /\ StoreKeys \subseteq {r.breed : r \in db'}
        /\ (rPc = "returned" /\ (~fResult.ok \/ Len(fResult.data) = 0)) =>
              db' = db
        /\ rPc = "finish" => db' = db
      ]_vars

C18_Witness ==
    /\ upserts >= 1
    /\ completedRuns >= 1
    /\ upstream[1] = Http(500, ObjectBody)
    /\ upstream[2] = Http(200, ArrayBody(<<ItemUrl, ItemAkita>>))
    /\ StoreKeys = {sPug, sAkita}

\* C19: while quick_initial_fetch is under way the scheduler has no job and
\* no thread; quick_initial_fetch begins a run for pages 1..5 exactly when
\* the table is empty, and otherwise returns with no request made and the
\* table and last_fetch_time as they were; no page above 5 is requested
\* before the scheduler is started.
C19_Bootstrap ==
    /\ [](bootPc \in {"start", "fetching"} =>
             (thread = 0 /\ ~running /\ jobs = <<>>))
    /\ [](/\ \A i \in DOMAIN requested : requested[i] = i /\ i <= 5
          /\ runsDone <= 1
          /\ (bootPc \in {"done", "crashed"} /\ runsDone = 0) =>
                (/\ requested = <<>> /\ fRequests = 0 /\ db # {}
                 /\ last_fetch_time = NullTime))
    /\ [][ (bootPc = "start" /\ bootPc' # "start") =>
              IF db = {}
              THEN /\ bootPc' = "fetching"
                   /\ rPc' = "fetching"
                   /\ start_page' = 1 /\ end_page' = 6
                   /\ requested' = <<1>>
              ELSE /\ bootPc' = "done"
                   /\ rPc' = "idle"
                   /\ requested' = <<>>
                   /\ fRequests' = 0
                   /\ db' = db
                   /\ last_fetch_time' = last_fetch_time
         ]_vars

C19_Witness ==
    /\ bootPc = "done"
    /\ requested = <<1, 2, 3, 4, 5>>
    /\ runEnd = "exhausted"
    /\ db # {}
    /\ ~last_fetch_time.isNull
    /\ thread = 1
    /\ Len(jobs) = 2

\* C20: a run never requests more than 50 pages nor makes more than 3
\* requests for one page, and every run that has begun ends (the call of
\* fetch_dogs_from_api returns, or raises when the store does).
C20_RunTerminates ==
    /\ [](Len(requested) <= 50 /\ fRequests <= 3 /\ attempt <= 3)
    /\ (rPc # "idle") ~> (rPc = "idle")

C20_Witness ==
    /\ rPc = "idle"
    /\ runOutcome = "returned"
    /\ Len(requested) = 50
    /\ fRequests = 3
    /\ runEnd = "exhausted"

=============================================================================
